---- MODULE Spec2Model ----
(***************************************************************************)
(* Model of the article rewriting pipeline of src/index.js.                *)
(*                                                                         *)
(* A JavaScript string is a sequence of tokens.  A token is one of the     *)
(* pieces of text the regular expressions and String.includes calls of the *)
(* program tell apart: a field marker ("TITLE:"), a tag ("<h1>"), a white  *)
(* space character ("SP", "LF"), an excluded domain ("wikipedia.org"), or  *)
(* any other piece of text.                                                *)
(***************************************************************************)
EXTENDS Naturals, Sequences, FiniteSets

VARIABLES
    pc,           \* position of main: which await it is suspended at
    article,      \* main: const article
    links,        \* main: const links
    scrapes,      \* the page fetches of Promise.all(links.map(scrapeArticle))
    refContents,  \* main: const refContents
    rewrite,      \* the call of rewriteWithAI: its arguments and its message
    aiData,       \* main: const aiData
    payload,      \* the body of the POST of publishArticle
    log,          \* collaborator calls issued and completed, in order
    pcB,          \* a second run with the same collaborator answers except
    refContentsB, \*   for the page fetches: its refContents,
    rewriteB,     \*   its call of rewriteWithAI,
    payloadB,     \*   its POST body
    searchRes,    \* googleSearch alone: the answer of the search provider
    found,        \* googleSearch alone: its return value
    response,     \* rewriteWithAI alone: the answer of the inference call
    rewritten     \* rewriteWithAI alone: its return value

vars == <<pc, article, links, scrapes, refContents, rewrite, aiData, payload,
          log, pcB, refContentsB, rewriteB, payloadB,
          searchRes, found, response, rewritten>>

pipelineVars == <<pc, article, links, scrapes, refContents, rewrite, aiData,
                  payload, log, pcB, refContentsB, rewriteB, payloadB>>

aloneVars == <<searchRes, found, response, rewritten>>

-----------------------------------------------------------------------------
(* Bounds of the model *)

\* longest result list the search provider returns
MaxResults == 3
\* longest inference response enumerated token by token
MaxLen == 4

-----------------------------------------------------------------------------
(* Strings *)

Min(a, b) == IF a < b THEN a ELSE b

\* \s of the regular expressions
Spaces == {"SP", "LF"}

\* what "." of the regular expressions does not match
LineTerminators == {"LF"}

\* String.prototype.slice(0, n)
Slice0(s, n) == SubSeq(s, 1, Min(Len(s), n))

\* String.prototype.includes on a URL
Includes(url, piece) == \E i \in 1..Len(url) : url[i] = piece

\* least index >= from whose token is in the set, Len(s) + 1 when none is
IndexIn(s, from, set) ==
    IF \E i \in from..Len(s) : s[i] \in set
    THEN CHOOSE i \in from..Len(s) :
             s[i] \in set /\ \A j \in from..(i - 1) : s[j] \notin set
    ELSE Len(s) + 1

\* least index >= from whose token is not in the set, Len(s) + 1 when none is
IndexNotIn(s, from, set) ==
    IF \E i \in from..Len(s) : s[i] \notin set
    THEN CHOOSE i \in from..Len(s) :
             s[i] \notin set /\ \A j \in from..(i - 1) : s[j] \in set
    ELSE Len(s) + 1

\* String.prototype.trim
Trim(s) ==
    LET first == IndexNotIn(s, 1, Spaces)
        last  == IF first > Len(s) THEN 0
                 ELSE CHOOSE i \in first..Len(s) :
                          s[i] \notin Spaces
                              /\ \A j \in (i + 1)..Len(s) : s[j] \in Spaces
    IN  SubSeq(s, first, last)

RECURSIVE CollapseSpaces(_)
\* text.replace(/\s+/g, " ")
CollapseSpaces(s) ==
    IF s = <<>> THEN <<>>
    ELSE IF Head(s) \in Spaces
         THEN LET next == IndexNotIn(s, 1, Spaces)
              IN  <<"SP">> \o CollapseSpaces(SubSeq(s, next, Len(s)))
         ELSE <<Head(s)>> \o CollapseSpaces(Tail(s))

\* the result of String.prototype.match: null, or the first capture group
NoMatch == [matched |-> FALSE, group |-> <<>>]
Match(g) == [matched |-> TRUE, group |-> g]

\* m?.[1] ?? fallback
GroupOrNullish(m, fallback) ==
    IF m.matched THEN m.group ELSE fallback

\* m?.[1] || fallback
GroupOr(m, fallback) ==
    IF m.matched /\ m.group # <<>> THEN m.group ELSE fallback

-----------------------------------------------------------------------------
(* isValidBlogLink *)

isValidBlogLink(url) ==
    /\ ~Includes(url, "wikipedia.org")
    /\ ~Includes(url, "beyondchats.com")
    /\ ~Includes(url, "youtube.com")
    /\ ~Includes(url, "facebook.com")
    /\ ~Includes(url, "linkedin.com")

-----------------------------------------------------------------------------
(* googleSearch *)

SearchLimit == 2

SearchError == [ok |-> FALSE, organic |-> <<>>]
SearchOk(list) == [ok |-> TRUE, organic |-> list]

\* googleSearch with .slice(0, 2) ahead of .filter(isValidBlogLink)
googleSearchSliceFirst(res) ==
    IF res.ok
    THEN SelectSeq(Slice0(res.organic, SearchLimit), isValidBlogLink)
    ELSE <<>>

\* the value googleSearch returns for an answer of the search provider
googleSearch(res) ==
    IF res.ok
    THEN Slice0(SelectSeq(res.organic, isValidBlogLink), SearchLimit)
    ELSE <<>>

-----------------------------------------------------------------------------
(* scrapeArticle *)

ScrapeLimit == 4000

PageError == [ok |-> FALSE, article |-> <<>>, main |-> <<>>, body |-> <<>>]

\* scrapeArticle with a catch block that returns a message
scrapeArticleErrorText(page) ==
    IF page.ok
    THEN LET text == IF page.article # <<>> THEN page.article
                     ELSE IF page.main # <<>> THEN page.main
                     ELSE page.body
         IN  Slice0(Trim(CollapseSpaces(text)), ScrapeLimit)
    ELSE <<"Scrape failed">>

\* the value scrapeArticle returns for an answer of the page fetch; a page
\* is the text of its <article>, <main> and <body> elements
scrapeArticle(page) ==
    IF page.ok
    THEN LET text == IF page.article # <<>> THEN page.article
                     ELSE IF page.main # <<>> THEN page.main
                     ELSE page.body
         IN  Slice0(Trim(CollapseSpaces(text)), ScrapeLimit)
    ELSE <<>>

-----------------------------------------------------------------------------
(* rewriteWithAI *)

OriginalLimit == 800

RECURSIVE Join(_, _)
\* Array.prototype.join
Join(list, sep) ==
    IF list = <<>> THEN <<>>
    ELSE IF Len(list) = 1 THEN list[1]
    ELSE list[1] \o sep \o Join(Tail(list), sep)

\* the user message with the scraped texts in it
UserMessageWithTexts(original, refs, urls) ==
    <<"Rewrite this: ">> \o Slice0(original, OriginalLimit)
        \o <<". Refs: ">> \o Join(urls, <<", ">>) \o Join(refs, <<", ">>)

\* the content of the user message
UserMessage(original, refs, urls) ==
    <<"Rewrite this: ">> \o Slice0(original, OriginalLimit)
        \o <<". Refs: ">> \o Join(urls, <<", ">>)

\* what /TITLE:/i, /DESCRIPTION:/i and /CONTENT:/i match
TitleMarkers == {"TITLE:", "title:"}
DescriptionMarkers == {"DESCRIPTION:", "description:"}
ContentMarkers == {"CONTENT:", "content:"}

\* text.match(/MARKER:\s*(.*)/i)
MatchLine(text, markers) ==
    LET m     == IndexIn(text, 1, markers)
        start == IndexNotIn(text, m + 1, Spaces)
        stop  == IndexIn(text, start, LineTerminators)
    IN  IF m > Len(text) THEN NoMatch
        ELSE Match(SubSeq(text, start, stop - 1))

\* text.match(/CONTENT:\s*([\s\S]*)/i)
MatchRest(text, markers) ==
    LET m     == IndexIn(text, 1, markers)
        start == IndexNotIn(text, m + 1, Spaces)
    IN  IF m > Len(text) THEN NoMatch
        ELSE Match(SubSeq(text, start, Len(text)))

DefaultTitle == <<"New Efficiency Insights">>
DefaultDescription == <<"Learn how to optimize service platforms.">>

\* aiData before the assignment, the null of the catch block, and an object
AiUnset == [kind |-> "unset", title |-> <<>>, description |-> <<>>, content |-> <<>>]
AiNull == [kind |-> "null", title |-> <<>>, description |-> <<>>, content |-> <<>>]

InferenceError == [ok |-> FALSE, text |-> <<>>]
InferenceOk(text) == [ok |-> TRUE, text |-> text]

\* the value rewriteWithAI returns for an answer of the inference call
rewriteWithAI(res) ==
    IF res.ok
    THEN [kind        |-> "object",
          title       |-> GroupOr(MatchLine(res.text, TitleMarkers), DefaultTitle),
          description |-> GroupOr(MatchLine(res.text, DescriptionMarkers),
                                  DefaultDescription),
          content     |-> GroupOr(MatchRest(res.text, ContentMarkers), res.text)]
    ELSE AiNull

-----------------------------------------------------------------------------
(* publishArticle *)

\* what <h[1-2][^>]*>, <\/h[1-2]>, <p[^>]*>, <\/p> and <[^>]*> match
HeadingOpen == {"<h1>", "<h2>"}
HeadingClose == {"</h1>", "</h2>"}
ParagraphOpen == {"<p>"}
ParagraphClose == {"</p>"}
Tags == {"<h1>", "<h2>", "</h1>", "</h2>", "<p>", "</p>"}
NotTag(t) == t \notin Tags

\* finalContent.match(/<open[^>]*>([\s\S]*?)<\/close>/i)
MatchElement(html, opening, closing) ==
    LET open  == IndexIn(html, 1, opening)
        close == IndexIn(html, open + 1, closing)
    IN  IF open > Len(html) \/ close > Len(html) THEN NoMatch
        ELSE Match(SubSeq(html, open + 1, close - 1))

\* a JavaScript value that is null or a string
Null == [isNull |-> TRUE, str |-> <<>>]
Str(s) == [isNull |-> FALSE, str |-> s]

\* m ? m[1].replace(/<[^>]*>/g, "").trim() : null
InnerText(m) ==
    IF m.matched THEN Str(Trim(SelectSeq(m.group, NotTag))) ELSE Null

NoPayload == [sent |-> FALSE, id |-> 0, title |-> Null, description |-> Null,
              content |-> <<>>, references |-> <<>>]

\* publishArticle posting the first reference only
publishArticleFirstRef(id, data, refs) ==
    LET finalContent   == data.content
        extractedTitle == InnerText(MatchElement(finalContent, HeadingOpen,
                                                 HeadingClose))
        extractedDesc  == InnerText(MatchElement(finalContent, ParagraphOpen,
                                                 ParagraphClose))
    IN  [sent        |-> TRUE,
         id          |-> id,
         title       |-> extractedTitle,
         description |-> extractedDesc,
         content     |-> finalContent,
         references  |-> Slice0(refs, 1)]

\* the body publishArticle posts
publishArticle(id, data, refs) ==
    LET finalContent   == data.content
        extractedTitle == InnerText(MatchElement(finalContent, HeadingOpen,
                                                 HeadingClose))
        extractedDesc  == InnerText(MatchElement(finalContent, ParagraphOpen,
                                                 ParagraphClose))
    IN  [sent        |-> TRUE,
         id          |-> id,
         title       |-> extractedTitle,
         description |-> extractedDesc,
         content     |-> finalContent,
         references  |-> refs]

-----------------------------------------------------------------------------
(* The answers of the collaborators *)

SeqsUpTo(S, n) == UNION {[1..k -> S] : k \in 0..n}

NoArticle == [id |-> 0, title |-> <<>>, content |-> <<>>]

Articles ==
    {[id |-> 1, title |-> <<"X">>, content |-> <<"old", "SP", "text">>],
     [id |-> 2, title |-> <<"Y">>, content |-> <<>>]}

Urls ==
    {<<"https://", "a.com", "/post">>,
     <<"https://", "b.com">>,
     <<"https://", "c.com">>,
     <<"https://", "en.", "wikipedia.org", "/wiki">>}

SearchAnswers ==
    {SearchError} \cup {SearchOk(list) : list \in SeqsUpTo(Urls, MaxResults)}

Pages ==
    {PageError,
     [ok |-> TRUE, article |-> <<"a", "SP", "LF", "b", "SP">>, main |-> <<"m">>,
      body |-> <<"a", "b", "m">>],
     [ok |-> TRUE, article |-> <<>>, main |-> <<>>, body |-> <<"LF", "c">>]}

Responses ==
    {<<"TITLE:", "SP", "t", "LF", "DESCRIPTION:", "SP", "d", "LF",
       "CONTENT:", "LF", "<h1>", "h", "</h1>", "<p>", "p", "</p>">>,
     <<"title:", "t", "LF", "content:", "c">>,
     <<"<h2>", "SP", "h", "</h2>", "<p>", "<h1>", "p", "</p>">>,
     <<"CONTENT:", "SP">>,
     <<"x">>,
     <<>>}

InferenceAnswers == {InferenceError} \cup {InferenceOk(t) : t \in Responses}

ParseAlphabet ==
    {"TITLE:", "DESCRIPTION:", "CONTENT:", "content:", "SP", "LF", "a"}

AllInferenceAnswers ==
    {InferenceError}
        \cup {InferenceOk(t) : t \in SeqsUpTo(ParseAlphabet, MaxLen)}

-----------------------------------------------------------------------------
(* main *)

Call(who, i) == <<"call", who, i>>
Done(who, i, ok) == <<IF ok THEN "ok" ELSE "error", who, i>>

NoRewrite == [called |-> FALSE, original |-> <<>>, refs |-> <<>>, urls |-> <<>>,
              message |-> <<>>]

\* rewriteWithAI up to its await
RewriteCalled(original, refs, urls) ==
    [called |-> TRUE, original |-> original, refs |-> refs, urls |-> urls,
     message |-> UserMessage(original, refs, urls)]

\* links.map(scrapeArticle): one page fetch per link, all issued at once
ScrapeAll(list) ==
    [i \in 1..Len(list) |->
        [url |-> list[i], done |-> FALSE, page |-> PageError, result |-> <<>>]]

ScrapeCalls(list) == [i \in 1..Len(list) |-> Call("scrape", i)]

MinLinks == 2

\* if (links.length < 1)
NotEnoughLinksOffByOne(list) == Len(list) < MinLinks - 1

\* if (links.length < 2)
NotEnoughLinks(list) == Len(list) < MinLinks

\* if (!aiData)
GenerationFailedNullOnly(data) == data.kind = "null"

\* if (!aiData || !aiData.content)
GenerationFailed(data) == data.kind = "null" \/ data.content = <<>>

InitMain ==
    /\ pc = "start"
    /\ article = NoArticle
    /\ links = <<>>
    /\ scrapes = <<>>
    /\ refContents = <<>>
    /\ rewrite = NoRewrite
    /\ aiData = AiUnset
    /\ payload = NoPayload
    /\ log = <<>>
    /\ pcB = "start"
    /\ refContentsB = <<>>
    /\ rewriteB = NoRewrite
    /\ payloadB = NoPayload

Init ==
    /\ InitMain
    /\ searchRes = SearchError
    /\ found = [done |-> FALSE, links |-> <<>>]
    /\ response = InferenceError
    /\ rewritten = AiUnset

\* main up to await fetchLatestArticle()
Start ==
    /\ pc = "start"
    /\ pc' = "fetch"
    /\ pcB' = "fetch"
    /\ log' = Append(log, Call("fetch", 0))
    /\ UNCHANGED <<article, links, scrapes, refContents, rewrite, aiData,
                   payload, refContentsB, rewriteB, payloadB>>
    /\ UNCHANGED aloneVars

\* the GET of the latest article answers: main goes on to googleSearch
FetchReturn ==
    /\ pc = "fetch"
    /\ \E a \in Articles : article' = a
    /\ pc' = "search"
    /\ pcB' = "search"
    /\ log' = log \o <<Done("fetch", 0, TRUE), Call("search", 0)>>
    /\ UNCHANGED <<links, scrapes, refContents, rewrite, aiData, payload,
                   refContentsB, rewriteB, payloadB>>
    /\ UNCHANGED aloneVars

\* the GET of the latest article fails and main goes on to googleSearch
FetchFailContinues ==
    /\ pc = "fetch"
    /\ pc' = "search"
    /\ pcB' = "search"
    /\ log' = log \o <<Done("fetch", 0, FALSE), Call("search", 0)>>
    /\ UNCHANGED <<article, links, scrapes, refContents, rewrite, aiData,
                   payload, refContentsB, rewriteB, payloadB>>
    /\ UNCHANGED aloneVars

\* the GET of the latest article fails: the catch of main
FetchFail ==
    /\ pc = "fetch"
    /\ pc' = "aborted"
    /\ pcB' = "aborted"
    /\ log' = Append(log, Done("fetch", 0, FALSE))
    /\ UNCHANGED <<article, links, scrapes, refContents, rewrite, aiData,
                   payload, refContentsB, rewriteB, payloadB>>
    /\ UNCHANGED aloneVars

\* the search answers or fails: googleSearch returns, main checks the number
\* of links and goes on to the page fetches
SearchReturn ==
    /\ pc = "search"
    /\ \E res \in SearchAnswers :
          /\ links' = googleSearch(res)
          /\ IF NotEnoughLinks(links')
             THEN /\ pc' = "aborted"
                  /\ log' = Append(log, Done("search", 0, res.ok))
                  /\ scrapes' = scrapes
             ELSE /\ pc' = "scrape"
                  /\ log' = Append(log, Done("search", 0, res.ok))
                               \o ScrapeCalls(links')
                  /\ scrapes' = ScrapeAll(links')
    /\ pcB' = pc'
    /\ UNCHANGED <<article, refContents, rewrite, aiData, payload,
                   refContentsB, rewriteB, payloadB>>
    /\ UNCHANGED aloneVars

\* one page fetch answers or fails: its scrapeArticle returns
ScrapeReturn(i) ==
    /\ pc = "scrape"
    /\ i \in DOMAIN scrapes
    /\ ~scrapes[i].done
    /\ \E page \in Pages :
          /\ scrapes' = [scrapes EXCEPT ![i] =
                            [url |-> scrapes[i].url, done |-> TRUE, page |-> page,
                             result |-> scrapeArticle(page)]]
          /\ log' = Append(log, Done("scrape", i, page.ok))
    /\ UNCHANGED <<pc, article, links, refContents, rewrite, aiData, payload,
                   pcB, refContentsB, rewriteB, payloadB>>
    /\ UNCHANGED aloneVars

\* Promise.race in place of Promise.all: main goes on after the first fetch
RewriteCallAfterFirst ==
    /\ pc = "scrape"
    /\ \E i \in DOMAIN scrapes : scrapes[i].done
    /\ refContents' = [i \in DOMAIN scrapes |-> scrapes[i].result]
    /\ rewrite' = RewriteCalled(article.content, refContents', links)
    /\ log' = Append(log, Call("inference", 0))
    /\ pc' = "rewrite"
    /\ \E pages \in [DOMAIN scrapes -> Pages] :
          refContentsB' = [i \in DOMAIN scrapes |-> scrapeArticle(pages[i])]
    /\ rewriteB' = RewriteCalled(article.content, refContentsB', links)
    /\ pcB' = "rewrite"
    /\ UNCHANGED <<article, links, scrapes, aiData, payload, payloadB>>
    /\ UNCHANGED aloneVars

\* Promise.all resolves: main goes on to rewriteWithAI
RewriteCall ==
    /\ pc = "scrape"
    /\ \A i \in DOMAIN scrapes : scrapes[i].done
    /\ refContents' = [i \in DOMAIN scrapes |-> scrapes[i].result]
    /\ rewrite' = RewriteCalled(article.content, refContents', links)
    /\ log' = Append(log, Call("inference", 0))
    /\ pc' = "rewrite"
    /\ \E pages \in [DOMAIN scrapes -> Pages] :
          refContentsB' = [i \in DOMAIN scrapes |-> scrapeArticle(pages[i])]
    /\ rewriteB' = RewriteCalled(article.content, refContentsB', links)
    /\ pcB' = "rewrite"
    /\ UNCHANGED <<article, links, scrapes, aiData, payload, payloadB>>
    /\ UNCHANGED aloneVars

\* the second run after its inference call answered with resB
InferenceReturnB(resB) ==
    LET dataB == rewriteWithAI(resB)
    IN  IF GenerationFailed(dataB)
        THEN pcB' = "aborted" /\ payloadB' = payloadB
        ELSE pcB' = "publish"
               /\ payloadB' = publishArticle(article.id, dataB, links)

\* the inference call answers or fails: rewriteWithAI returns, main checks
\* the result and goes on to publishArticle
InferenceReturn ==
    /\ pc = "rewrite"
    /\ \E res \in InferenceAnswers :
          /\ aiData' = rewriteWithAI(res)
          /\ log' = IF GenerationFailed(aiData')
                    THEN Append(log, Done("inference", 0, res.ok))
                    ELSE log \o <<Done("inference", 0, res.ok), Call("publish", 0)>>
          /\ \E resB \in InferenceAnswers :
                /\ rewriteB.message = rewrite.message => resB = res
                /\ InferenceReturnB(resB)
    /\ IF GenerationFailed(aiData')
       THEN pc' = "aborted" /\ payload' = payload
       ELSE pc' = "publish" /\ payload' = publishArticle(article.id, aiData', links)
    /\ UNCHANGED <<article, links, scrapes, refContents, rewrite, refContentsB,
                   rewriteB>>
    /\ UNCHANGED aloneVars

\* the second run after its POST ended as the first one's did
PublishEndB(ok) ==
    pcB' = IF pcB # "publish" THEN pcB
           ELSE IF ok THEN "published" ELSE "aborted"

\* the POST of the rewritten article answers
PublishReturn ==
    /\ pc = "publish"
    /\ pc' = "published"
    /\ log' = Append(log, Done("publish", 0, TRUE))
    /\ PublishEndB(TRUE)
    /\ UNCHANGED <<article, links, scrapes, refContents, rewrite, aiData,
                   payload, refContentsB, rewriteB, payloadB>>
    /\ UNCHANGED aloneVars

\* the POST of the rewritten article fails: the catch of main
PublishFail ==
    /\ pc = "publish"
    /\ pc' = "aborted"
    /\ log' = Append(log, Done("publish", 0, FALSE))
    /\ PublishEndB(FALSE)
    /\ UNCHANGED <<article, links, scrapes, refContents, rewrite, aiData,
                   payload, refContentsB, rewriteB, payloadB>>
    /\ UNCHANGED aloneVars

Next ==
    \/ Start
    \/ FetchReturn
    \/ FetchFail
    \/ SearchReturn
    \/ \E i \in DOMAIN scrapes : ScrapeReturn(i)
    \/ RewriteCall
    \/ InferenceReturn
    \/ PublishReturn
    \/ PublishFail

Spec == Init /\ [][Next]_vars

\* every collaborator call returns or fails, and the event loop then runs
\* the continuation
FairSpec == Spec /\ WF_vars(Next)

-----------------------------------------------------------------------------
(* googleSearch alone, on every answer of the search provider *)

InitCollect ==
    /\ InitMain
    /\ searchRes \in SearchAnswers
    /\ found = [done |-> FALSE, links |-> <<>>]
    /\ response = InferenceError
    /\ rewritten = AiUnset

Collect ==
    /\ ~found.done
    /\ found' = [done |-> TRUE, links |-> googleSearch(searchRes)]
    /\ UNCHANGED <<searchRes, response, rewritten>>
    /\ UNCHANGED pipelineVars

SpecCollect == InitCollect /\ [][Collect]_vars

-----------------------------------------------------------------------------
(* rewriteWithAI alone, on every answer of the inference call *)

InitRewrite ==
    /\ InitMain
    /\ searchRes = SearchError
    /\ found = [done |-> FALSE, links |-> <<>>]
    /\ response \in AllInferenceAnswers
    /\ rewritten = AiUnset

Rewrite ==
    /\ rewritten.kind = "unset"
    /\ rewritten' = rewriteWithAI(response)
    /\ UNCHANGED <<searchRes, found, response>>
    /\ UNCHANGED pipelineVars

SpecRewrite == InitRewrite /\ [][Rewrite]_vars

-----------------------------------------------------------------------------
(* What the log says *)

Stages == {"fetch", "search", "scrape", "inference", "publish"}
Terminal == {"published", "aborted"}

Count(e) == Cardinality({k \in 1..Len(log) : log[k] = e})

\* where the call of a collaborator was issued, 0 when it was not
CallPos(who, i) ==
    IF \E k \in 1..Len(log) : log[k] = Call(who, i)
    THEN CHOOSE k \in 1..Len(log) : log[k] = Call(who, i)
    ELSE 0

IsDone(e, who, i) == e = Done(who, i, TRUE) \/ e = Done(who, i, FALSE)

\* where the call of a collaborator completed, 0 when it has not
DonePos(who, i) ==
    IF \E k \in 1..Len(log) : IsDone(log[k], who, i)
    THEN CHOOSE k \in 1..Len(log) : IsDone(log[k], who, i)
    ELSE 0

Issued(who) == \E k \in 1..Len(log) : log[k][1] = "call" /\ log[k][2] = who

\* the calls issued and not completed
InFlight ==
    {c \in {<<log[k][2], log[k][3]>> : k \in 1..Len(log)} :
        CallPos(c[1], c[2]) > 0 /\ DonePos(c[1], c[2]) = 0}

\* the second call is issued only after the first has completed
CompletedBefore(who1, i1, who2, i2) ==
    CallPos(who2, i2) > 0 =>
        /\ DonePos(who1, i1) > 0
        /\ DonePos(who1, i1) < CallPos(who2, i2)

-----------------------------------------------------------------------------
(* The claims *)

\* C1: in every run that reaches publish, the title and the description sent
\* to the content store are those of the result of rewriteWithAI, which
\* always carries both.
C1_RewriterFieldsPublished ==
    payload.sent =>
        /\ payload.title = Str(aiData.title)
        /\ payload.description = Str(aiData.description)

\* C2: the URLs handed to the page fetches, the URLs passed to rewriteWithAI
\* and the references of the publish request are the sequence googleSearch
\* returned.
C2_SameReferences ==
    /\ Len(scrapes) > 0 =>
          /\ Len(scrapes) = Len(links)
          /\ \A i \in 1..Len(links) : scrapes[i].url = links[i]
    /\ rewrite.called => rewrite.urls = links
    /\ payload.sent => payload.references = links

C2_Witness ==
    /\ pc = "published"
    /\ Len(payload.references) = 2
    /\ payload.references[1] # payload.references[2]

\* C3: when googleSearch yields fewer than 2 links, the search having failed
\* included, the run aborts and no page fetch, inference call or publish
\* call is ever issued.
C3_TooFewLinksAborts ==
    (DonePos("search", 0) > 0 /\ Len(links) < 2) =>
        /\ pc = "aborted"
        /\ ~Issued("scrape") /\ ~Issued("inference") /\ ~Issued("publish")

C3_Witness ==
    /\ Len(links) = 1
    /\ pc = "aborted"
    /\ DonePos("search", 0) > 0

\* C4: when rewriteWithAI returns null or a result with empty content the
\* run aborts and the publish call is never issued; the publish call is
\* issued only after a result with content that is not empty.
C4_NoPublishWithoutContent ==
    /\ (aiData.kind = "null" \/ (aiData.kind = "object" /\ aiData.content = <<>>)) =>
          pc = "aborted" /\ ~Issued("publish") /\ ~payload.sent
    /\ (Issued("publish") \/ payload.sent) =>
          /\ aiData.kind = "object" /\ aiData.content # <<>>
          /\ DonePos("inference", 0) > 0
          /\ DonePos("inference", 0) < CallPos("publish", 0)

C4_Witness ==
    /\ aiData.kind = "object"
    /\ aiData.content = <<>>
    /\ pc = "aborted"

\* C5: whichever page fetches fail and in whatever order they complete, a
\* failing fetch gives the empty string at its own position, the result of
\* a completed fetch is never changed by another fetch and keeps the
\* position of its URL, and the run goes on to the inference call; a failing
\* fetch never aborts the run.
C5_ScrapeIsolated ==
    /\ [](\A i \in 1..Len(scrapes) :
            /\ scrapes[i].url = links[i]
            /\ (scrapes[i].done /\ ~scrapes[i].page.ok) => scrapes[i].result = <<>>
            /\ rewrite.called =>
                  /\ scrapes[i].done
                  /\ Len(refContents) = Len(links)
                  /\ refContents[i] = scrapes[i].result
                  /\ rewrite.refs = refContents)
    /\ [][\A i \in 1..Len(scrapes) : scrapes[i].done => scrapes'[i] = scrapes[i]]_vars
    /\ [][pc = "scrape" => pc' \in {"scrape", "rewrite"}]_vars
    /\ (pc = "scrape") ~> (pc = "rewrite" /\ Issued("inference"))

C5_Witness ==
    /\ rewrite.called
    /\ ~scrapes[1].page.ok
    /\ scrapes[2].page.ok
    /\ refContents[2] # <<>>
    /\ DonePos("scrape", 2) < DonePos("scrape", 1)

\* C6: the stages never overlap and never run out of order: the search is
\* issued after the article fetch completed, every page fetch after the
\* search completed, the inference call after every page fetch completed,
\* and the publish call after the inference call completed.
C6_StagesInOrder ==
    /\ CompletedBefore("fetch", 0, "search", 0)
    /\ \A i \in 1..Len(links) :
          /\ CompletedBefore("search", 0, "scrape", i)
          /\ Issued("inference") => CallPos("scrape", i) > 0
          /\ CompletedBefore("scrape", i, "inference", 0)
    /\ Issued("inference") => Len(links) >= 2
    /\ CompletedBefore("inference", 0, "publish", 0)
    /\ \A c, d \in InFlight : c[1] = d[1]

C6_Witness ==
    /\ pc = "published"
    /\ DonePos("scrape", 2) < DonePos("scrape", 1)
    /\ InFlight = {}

ExcludedDomains ==
    {"wikipedia.org", "beyondchats.com", "youtube.com", "facebook.com",
     "linkedin.com"}

Acceptable(list) ==
    {i \in 1..Len(list) :
        \A d \in ExcludedDomains : \A j \in 1..Len(list[i]) : list[i][j] # d}

\* the n-th acceptable position of a list
NthAcceptable(list, n) ==
    CHOOSE i \in Acceptable(list) :
        Cardinality({j \in Acceptable(list) : j < i}) = n - 1

\* C7: for every result list of the search provider googleSearch returns the
\* first min(2, k) of the k links that contain no excluded domain, in the
\* order of the provider; when the search fails it returns the empty
\* sequence.
C7_FirstTwoAcceptable ==
    found.done =>
        IF searchRes.ok
        THEN LET k == Cardinality(Acceptable(searchRes.organic))
             IN  /\ Len(found.links) = Min(2, k)
                 /\ \A n \in 1..Len(found.links) :
                       found.links[n] =
                           searchRes.organic[NthAcceptable(searchRes.organic, n)]
        ELSE found.links = <<>>

C7_Witness ==
    /\ found.done
    /\ searchRes.ok
    /\ Len(searchRes.organic) = 3
    /\ Cardinality(Acceptable(searchRes.organic)) = 2
    /\ 1 \notin Acceptable(searchRes.organic)
    /\ found.links = <<searchRes.organic[2], searchRes.organic[3]>>

\* the text a field takes from a response: what follows the first marker
\* and the white space after it, up to the end of the line or of the text
CapturedLine(text, markers, cap) ==
    \E m \in 1..Len(text) : \E a \in (m + 1)..(Len(text) + 1) :
    \E b \in (a - 1)..Len(text) :
        /\ text[m] \in markers /\ \A j \in 1..(m - 1) : text[j] \notin markers
        /\ \A j \in (m + 1)..(a - 1) : text[j] \in {"SP", "LF"}
        /\ a <= Len(text) => text[a] \notin {"SP", "LF"}
        /\ \A j \in a..b : text[j] # "LF"
        /\ b < Len(text) => text[b + 1] = "LF"
        /\ cap = [j \in 1..(b - a + 1) |-> text[a + j - 1]]

CapturedRest(text, markers, cap) ==
    \E m \in 1..Len(text) : \E a \in (m + 1)..(Len(text) + 1) :
        /\ text[m] \in markers /\ \A j \in 1..(m - 1) : text[j] \notin markers
        /\ \A j \in (m + 1)..(a - 1) : text[j] \in {"SP", "LF"}
        /\ a <= Len(text) => text[a] \notin {"SP", "LF"}
        /\ cap = [j \in 1..(Len(text) - a + 1) |-> text[a + j - 1]]

HasMarker(text, markers) == \E m \in 1..Len(text) : text[m] \in markers

\* C8 as stated: for every response text of a successful inference call
\* rewriteWithAI returns an object whose content is never empty; each field
\* takes the text captured after its marker when the marker matches and its
\* default otherwise.
C8_NeverEmptyContent ==
    (rewritten.kind # "unset" /\ response.ok) =>
        LET text == response.text
        IN  /\ rewritten.kind = "object"
            /\ rewritten.content # <<>>
            /\ IF HasMarker(text, TitleMarkers)
               THEN CapturedLine(text, TitleMarkers, rewritten.title)
               ELSE rewritten.title = DefaultTitle
            /\ IF HasMarker(text, DescriptionMarkers)
               THEN CapturedLine(text, DescriptionMarkers, rewritten.description)
               ELSE rewritten.description = DefaultDescription
            /\ IF HasMarker(text, ContentMarkers)
               THEN CapturedRest(text, ContentMarkers, rewritten.content)
               ELSE rewritten.content = text

\* C8 as amended: for every response text of a successful inference call
\* rewriteWithAI returns an object whose content is empty only when the
\* response text is empty; each field takes the text captured after its
\* marker when the marker matches and captures text that is not empty, and
\* its default otherwise; a response without any marker gives the two
\* default strings and the raw text as content.
C8_ContentEmptyOnlyOnEmptyResponse ==
    (rewritten.kind # "unset" /\ response.ok) =>
        LET text == response.text
        IN  /\ rewritten.kind = "object"
            /\ rewritten.content = <<>> <=> text = <<>>
            /\ IF HasMarker(text, TitleMarkers)
                  /\ ~CapturedLine(text, TitleMarkers, <<>>)
               THEN CapturedLine(text, TitleMarkers, rewritten.title)
               ELSE rewritten.title = DefaultTitle
            /\ IF HasMarker(text, DescriptionMarkers)
                  /\ ~CapturedLine(text, DescriptionMarkers, <<>>)
               THEN CapturedLine(text, DescriptionMarkers, rewritten.description)
               ELSE rewritten.description = DefaultDescription
            /\ IF HasMarker(text, ContentMarkers)
                  /\ ~CapturedRest(text, ContentMarkers, <<>>)
               THEN CapturedRest(text, ContentMarkers, rewritten.content)
               ELSE rewritten.content = text

C8_Witness ==
    /\ rewritten.kind = "object"
    /\ response.ok
    /\ HasMarker(response.text, TitleMarkers)
    /\ HasMarker(response.text, ContentMarkers)
    /\ rewritten.title # DefaultTitle
    /\ rewritten.content # response.text
    /\ rewritten.description = DefaultDescription

\* C9: every run ends as published or as aborted and stays there; the
\* fetch, the search, the inference call and the publish call are each
\* issued at most once and a page fetch at most once per link; after an
\* error of the article fetch or of the publish call the run is aborted and
\* issues no further call.
C9_TerminatesWithoutRetry ==
    /\ <>(pc \in Terminal)
    /\ [](\A k \in 1..Len(log) :
            /\ Count(log[k]) <= 1
            /\ log[k][2] \in Stages
            /\ log[k][3] \in (IF log[k][2] = "scrape" THEN 1..Len(links) ELSE {0}))
    /\ [][(pc \in Terminal) => (pc' = pc /\ log' = log)]_vars
    /\ []((DonePos("fetch", 0) > 0 /\ log[DonePos("fetch", 0)][1] = "error") =>
            (pc = "aborted" /\ DonePos("fetch", 0) = Len(log)))
    /\ []((DonePos("publish", 0) > 0 /\ log[DonePos("publish", 0)][1] = "error") =>
            (pc = "aborted" /\ DonePos("publish", 0) = Len(log)))

C9_Witness ==
    /\ pc = "aborted"
    /\ Len(log) > 0
    /\ log[Len(log)] = Done("publish", 0, FALSE)

\* C10: two runs that get the same article, the same search results and the
\* same answer of the inference call to the same message, and differ only
\* in what the page fetches give, send the same message to the inference
\* call, end alike and post the same body.
C10_ScrapedTextsUnused ==
    /\ rewriteB.called = rewrite.called
    /\ rewriteB.message = rewrite.message
    /\ payloadB = payload
    /\ pcB = pc

C10_Witness ==
    /\ pc = "published"
    /\ pcB = "published"
    /\ refContentsB # refContents
    /\ refContents[1] = <<>>
    /\ refContentsB[1] # <<>>

====
